---- MODULE Spec2Model ----
(***************************************************************************)
(* Book library (Flask + Flask-SQLAlchemy on SQLite): the book table, the  *)
(* uploads directory and the four handlers that change or read them        *)
(* (add_book, edit_book, delete_book, book_detail).                        *)
(*                                                                         *)
(* Text is modelled as a sequence of characters (one-character strings),   *)
(* so that secure_filename, int() and the f-string that builds the cover   *)
(* reference are computed, not assumed.                                    *)
(***************************************************************************)
EXTENDS Integers, Sequences, FiniteSets, TLC

VARIABLES
    table,      \* the 'book' table: id -> row, DOMAIN table = the ids stored
    uploads,    \* static/images/uploads: sanitized file name -> file contents
    req,        \* observation: the last request served and its response
    used,       \* observation: every id a row was ever inserted under
    gone,       \* observation: every id a delete_book has removed
    subm,       \* observation: id -> what its create submitted, until edit/delete
    procs,      \* concurrent requests: worker -> request in progress
    base        \* observation: table and calls of the current concurrent round

vars == <<table, uploads, req, used, gone, subm, procs, base>>

-----------------------------------------------------------------------------
(* Bounds *)

MaxId == 2          \* rows are created while the next id is at most MaxId
MaxLen == 1         \* uploaded file names have at most MaxLen characters
NumWorkers == 2     \* requests in flight at once in the threaded server

-----------------------------------------------------------------------------
(* Text helpers *)

Max(S) == CHOOSE m \in S : \A n \in S : n <= m

RECURSIVE SeqsUpTo(_, _)
SeqsUpTo(S, n) ==
    IF n = 0 THEN {<<>>}
    ELSE LET shorter == SeqsUpTo(S, n - 1)
         IN  shorter \cup {Append(s, c) : s \in {t \in shorter : Len(t) = n - 1}, c \in S}

\* str.replace(old, new) for a one-character old
Replace(s, old, new) == [i \in 1..Len(s) |-> IF s[i] = old THEN new ELSE s[i]]

\* the characters of s that are in keep, in order
RECURSIVE Filter(_, _)
Filter(s, keep) ==
    IF s = <<>> THEN <<>>
    ELSE (IF Head(s) \in keep THEN <<Head(s)>> ELSE <<>>) \o Filter(Tail(s), keep)

\* str.lstrip(chars) / str.rstrip(chars) / str.strip(chars)
RECURSIVE LStrip(_, _)
LStrip(s, chars) ==
    IF s # <<>> /\ Head(s) \in chars THEN LStrip(Tail(s), chars) ELSE s

RECURSIVE RStrip(_, _)
RStrip(s, chars) ==
    IF s # <<>> /\ s[Len(s)] \in chars THEN RStrip(SubSeq(s, 1, Len(s) - 1), chars) ELSE s

Strip(s, chars) == RStrip(LStrip(s, chars), chars)

\* "_".join(s.split()): runs of whitespace become one "_", none at the ends
RECURSIVE JoinSplit(_)
JoinSplit(s) ==
    LET t == LStrip(s, {" "})
    IN  IF t = <<>> THEN <<>>
        ELSE IF Head(t) # " " /\ Len(t) > 1 /\ t[2] = " "
             THEN LET rest == JoinSplit(Tail(t))
                  IN  <<Head(t)>> \o (IF rest = <<>> THEN <<>> ELSE <<"_">> \o rest)
             ELSE <<Head(t)>> \o JoinSplit(Tail(t))

-----------------------------------------------------------------------------
(* werkzeug.utils.secure_filename, as called at app.py:83 and app.py:130 *)

Letters == {"a", "b", "c", "d", "e", "f", "g", "h", "i", "j", "k", "l", "m",
            "n", "o", "p", "q", "r", "s", "t", "u", "v", "w", "x", "y", "z",
            "A", "B", "C", "D", "E", "F", "G", "H", "I", "J", "K", "L", "M",
            "N", "O", "P", "Q", "R", "S", "T", "U", "V", "W", "X", "Y", "Z"}

Digits == {"0", "1", "2", "3", "4", "5", "6", "7", "8", "9"}

\* the complement of the character class [^A-Za-z0-9_.-]
SafeChars == Letters \cup Digits \cup {"_", ".", "-"}

\* the characters NFKD + encode("ascii", "ignore") keeps
Ascii == SafeChars \cup {" ", "/", "#"}

secure_filename(filename) ==
    LET ascii  == Filter(filename, Ascii)
        nosep  == Replace(ascii, "/", " ")
        joined == JoinSplit(nosep)
    IN  Strip(Filter(joined, SafeChars), {".", "_"})

-----------------------------------------------------------------------------
(* int(request.form['year']), app.py:98 and app.py:119 *)

DigitVal(c) ==
    CASE c = "0" -> 0 [] c = "1" -> 1 [] c = "2" -> 2 [] c = "3" -> 3
      [] c = "4" -> 4 [] c = "5" -> 5 [] c = "6" -> 6 [] c = "7" -> 7
      [] c = "8" -> 8 [] c = "9" -> 9

\* digits, with single underscores allowed between digits
IsDigitString(s) ==
    /\ s # <<>>
    /\ s[1] \in Digits /\ s[Len(s)] \in Digits
    /\ \A i \in 1..Len(s) : s[i] \in Digits \cup {"_"}
    /\ \A i \in 1..(Len(s) - 1) : ~(s[i] = "_" /\ s[i + 1] = "_")

RECURSIVE DigitsValue(_)
DigitsValue(s) ==
    IF s = <<>> THEN 0
    ELSE LET init == SubSeq(s, 1, Len(s) - 1)
             last == s[Len(s)]
         IN  IF last = "_" THEN DigitsValue(init)
             ELSE 10 * DigitsValue(init) + DigitVal(last)

\* the text int() parses: surrounding whitespace dropped, then an optional sign
Unsigned(s) ==
    LET t == Strip(s, {" "})
    IN  IF t # <<>> /\ t[1] \in {"+", "-"} THEN Tail(t) ELSE t

\* int(s) raises ValueError
IntRaises(s) == ~IsDigitString(Unsigned(s))

\* int(s), for s that does not raise
ParseInt(s) ==
    LET t == Strip(s, {" "})
        v == DigitsValue(Unsigned(s))
    IN  IF t # <<>> /\ t[1] = "-" THEN 0 - v ELSE v

-----------------------------------------------------------------------------
(* The book table (class Book) and the cover references *)

\* Column default of cover_image, and the start value of cover_path
DefaultCover == <<"images/default_cover.jpg">>

\* f'images/uploads/{filename}'
UploadsRef(filename) == <<"images/uploads/">> \o filename

\* Book.query.get(id): a one-element sequence, or <<>> when there is no row
Get(t, id) == IF id \in DOMAIN t THEN <<t[id]>> ELSE <<>>

\* The id an INSERT without an explicit id receives: the column is
\* INTEGER PRIMARY KEY of an SQLite table, declared without AUTOINCREMENT,
\* so the row id is one more than the largest row id in the table.
NextId(t) == IF DOMAIN t = {} THEN 1 ELSE Max(DOMAIN t) + 1

Insert(t, id, row) == [i \in DOMAIN t \cup {id} |-> IF i = id THEN row ELSE t[i]]

Remove(t, id) == [i \in DOMAIN t \ {id} |-> t[i]]

-----------------------------------------------------------------------------
(* request.form: a function from the keys present to their text *)

FormKeys == <<"title", "author", "year", "description">>

\* How reading the four fields in source order ends: after `assigned` fields
\* were read, with err "none", "KeyError" (request.form[k], a 400) or
\* "ValueError" (int(), a 500).
FormRead(form) ==
    IF "title" \notin DOMAIN form THEN [assigned |-> 0, err |-> "KeyError"]
    ELSE IF "author" \notin DOMAIN form THEN [assigned |-> 1, err |-> "KeyError"]
    ELSE IF "year" \notin DOMAIN form THEN [assigned |-> 2, err |-> "KeyError"]
    ELSE IF IntRaises(form.year) THEN [assigned |-> 2, err |-> "ValueError"]
    ELSE IF "description" \notin DOMAIN form THEN [assigned |-> 3, err |-> "KeyError"]
    ELSE [assigned |-> 4, err |-> "none"]

StatusOf(err) ==
    CASE err = "none" -> 302
      [] err = "KeyError" -> 400
      [] err = "NotFound" -> 404
      [] OTHER -> 500

\* NewBook with title and author taken from each other's form field
NewBookSwapsFields(form, cover_path) ==
    [title |-> form.author, author |-> form.title, year |-> ParseInt(form.year),
     description |-> form.description, cover_image |-> cover_path]

\* Book(title=..., author=..., year=int(...), description=..., cover_image=...)
NewBook(form, cover_path) ==
    [title |-> form.title, author |-> form.author, year |-> ParseInt(form.year),
     description |-> form.description, cover_image |-> cover_path]

\* Assign without the assignment of year
AssignSkipsYear(book, form, n) ==
    [title       |-> IF n >= 1 THEN form.title ELSE book.title,
     author      |-> IF n >= 2 THEN form.author ELSE book.author,
     year        |-> book.year,
     description |-> IF n >= 4 THEN form.description ELSE book.description,
     cover_image |-> book.cover_image]

\* The first n assignments of edit_book on the loaded object
Assign(book, form, n) ==
    [title       |-> IF n >= 1 THEN form.title ELSE book.title,
     author      |-> IF n >= 2 THEN form.author ELSE book.author,
     year        |-> IF n >= 3 THEN ParseInt(form.year) ELSE book.year,
     description |-> IF n >= 4 THEN form.description ELSE book.description,
     cover_image |-> book.cover_image]

-----------------------------------------------------------------------------
(* request.files['cover_image'] and FileStorage.save *)

\* Named without the test of the file name
NamedIgnoresName(file) == file # <<>>

\* 'cover_image' in request.files and uploaded_file.filename != ''
Named(file) == file # <<>> /\ file[1].filename # <<>>

UploadKind(file) ==
    IF file = <<>> THEN "none" ELSE IF file[1].filename = <<>> THEN "empty" ELSE "named"

\* FsOpen that keeps the contents of an existing file (mode "r+b")
FsOpenKeeps(fs, name) ==
    [n \in DOMAIN fs \cup {name} |-> IF n \in DOMAIN fs THEN fs[n] ELSE <<>>]

\* open(save_path, "wb"): the file exists and is empty
FsOpen(fs, name) == [n \in DOMAIN fs \cup {name} |-> IF n = name THEN <<>> ELSE fs[n]]

\* one write() of a chunk at offset pos of the writer's own file position;
\* a gap below pos reads as zeros
FsWrite(fs, name, pos, chunk) ==
    LET old == fs[name]
        len == IF Len(old) > pos + 1 THEN Len(old) ELSE pos + 1
    IN  [fs EXCEPT ![name] =
            [i \in 1..len |-> IF i = pos + 1 THEN chunk
                              ELSE IF i <= Len(old) THEN old[i] ELSE "0"]]

RECURSIVE WriteChunks(_, _, _, _)
WriteChunks(fs, name, content, n) ==
    IF n = 0 THEN fs
    ELSE FsWrite(WriteChunks(fs, name, content, n - 1), name, n - 1, content[n])

NoFault == [kind |-> "none", at |-> 0]

\* save that does not raise when save_path is the uploads directory
saveAcceptsEmptyName(fs, filename, content, fault) ==
    IF filename = <<>> THEN [raised |-> FALSE, fs |-> fs]
    ELSE IF fault.kind = "open" THEN [raised |-> TRUE, fs |-> fs]
    ELSE IF fault.kind = "write"
         THEN [raised |-> TRUE, fs |-> WriteChunks(FsOpen(fs, filename), filename, content, fault.at)]
         ELSE [raised |-> FALSE,
               fs |-> WriteChunks(FsOpen(fs, filename), filename, content, Len(content))]

\* save that swallows the exception of a failed open() or write()
saveSwallowsError(fs, filename, content, fault) ==
    IF filename = <<>> \/ fault.kind = "open" THEN [raised |-> filename = <<>>, fs |-> fs]
    ELSE IF fault.kind = "write"
         THEN [raised |-> FALSE, fs |-> WriteChunks(FsOpen(fs, filename), filename, content, fault.at)]
         ELSE [raised |-> FALSE,
               fs |-> WriteChunks(FsOpen(fs, filename), filename, content, Len(content))]

\* uploaded_file.save(os.path.join(UPLOAD_FOLDER, filename)) run to its end.
\* An empty filename makes save_path the uploads directory itself, and open()
\* raises; fault "open" is an open() that fails, fault "write" a write() that
\* fails after fault.at chunks.
save(fs, filename, content, fault) ==
    IF filename = <<>> \/ fault.kind = "open" THEN [raised |-> TRUE, fs |-> fs]
    ELSE IF fault.kind = "write"
         THEN [raised |-> TRUE, fs |-> WriteChunks(FsOpen(fs, filename), filename, content, fault.at)]
         ELSE [raised |-> FALSE,
               fs |-> WriteChunks(FsOpen(fs, filename), filename, content, Len(content))]

-----------------------------------------------------------------------------
(* The database session of one request *)

\* db.session.commit() of a session whose only change is the loaded row of
\* id, read as `loaded` and now `obj`: the unit of work emits one UPDATE that
\* sets the columns whose value differs from the loaded one, WHERE id = id,
\* and no statement at all when none differs. An UPDATE that matches no row
\* raises StaleDataError and the transaction is rolled back.
Flush(t, id, loaded, obj) ==
    LET changed == {c \in DOMAIN obj : obj[c] # loaded[c]}
    IN  IF changed = {} THEN [err |-> "none", table |-> t]
        ELSE IF id \notin DOMAIN t THEN [err |-> "StaleDataError", table |-> t]
        ELSE [err |-> "none",
              table |-> [t EXCEPT ![id] =
                            [c \in DOMAIN obj |-> IF c \in changed THEN obj[c] ELSE t[id][c]]]]

\* Rollback that writes the pending changes of the failed request
RollbackKeepsPending(t, id, obj) == [t EXCEPT ![id] = obj]

\* A request that ends in an exception never reaches commit(); the session
\* Flask-SQLAlchemy scopes to the request is removed at teardown and its
\* pending changes (obj) are discarded.
Rollback(t, id, obj) == t

-----------------------------------------------------------------------------
(* The handlers, run from start to end on table t and directory fs *)

\* add_book, POST
AddBookRun(t, fs, form, file, fault) ==
    LET filename   == IF Named(file) THEN secure_filename(file[1].filename) ELSE <<>>
        sv         == IF Named(file) THEN save(fs, filename, file[1].content, fault)
                      ELSE [raised |-> FALSE, fs |-> fs]
        cover_path == IF Named(file) THEN UploadsRef(filename) ELSE DefaultCover
        rd         == FormRead(form)
        err        == IF sv.raised THEN "IOError" ELSE rd.err
        id         == NextId(t)
    IN  [err      |-> err,
         id       |-> IF err = "none" THEN id ELSE 0,
         table    |-> IF err = "none" THEN Insert(t, id, NewBook(form, cover_path)) ELSE t,
         uploads  |-> sv.fs,
         filename |-> filename,
         cover_path |-> cover_path,
         dirty    |-> FALSE]

\* edit_book, POST
EditBookRun(t, fs, id, form, file, fault) ==
    IF Get(t, id) = <<>>
    THEN [err |-> "NotFound", id |-> id, table |-> t, uploads |-> fs,
          filename |-> <<>>, dirty |-> FALSE]
    ELSE
    LET book     == Get(t, id)[1]
        rd       == FormRead(form)
        obj      == Assign(book, form, rd.assigned)
        filename == IF rd.err = "none" /\ Named(file)
                    THEN secure_filename(file[1].filename) ELSE <<>>
        sv       == IF rd.err = "none" /\ Named(file)
                    THEN save(fs, filename, file[1].content, fault)
                    ELSE [raised |-> FALSE, fs |-> fs]
        final    == IF Named(file) THEN [obj EXCEPT !.cover_image = UploadsRef(filename)]
                    ELSE obj
        fl       == Flush(t, id, book, final)
        err      == IF rd.err # "none" THEN rd.err
                    ELSE IF sv.raised THEN "IOError" ELSE fl.err
    IN  [err      |-> err,
         id       |-> id,
         table    |-> IF err = "none" THEN fl.table ELSE Rollback(t, id, obj),
         uploads  |-> sv.fs,
         filename |-> filename,
         dirty    |-> obj # book]

\* delete_book, POST
DeleteBookRun(t, fs, id) ==
    IF Get(t, id) = <<>>
    THEN [err |-> "NotFound", id |-> id, table |-> t, uploads |-> fs,
          filename |-> <<>>, dirty |-> FALSE]
    ELSE [err |-> "none", id |-> id, table |-> Remove(t, id), uploads |-> fs,
          filename |-> <<>>, dirty |-> FALSE]

-----------------------------------------------------------------------------
(* Inputs *)

FormA == [title |-> "t1", author |-> "a1", year |-> <<"-", "1">>, description |-> "d1"]
FormB == [title |-> "t2", author |-> "a2", year |-> <<" ", "2">>, description |-> "d2"]

\* year texts int() rejects
BadYears == {<<"x">>, <<>>, <<"2", " ", "2">>}

Without(form, k) == [c \in DOMAIN form \ {k} |-> form[c]]

ValidForms == {FormA, FormB}

\* forms: the complete ones, each rejected year text, and each key missing
Forms ==
    ValidForms
    \cup {[FormB EXCEPT !.year = y] : y \in BadYears}
    \cup {Without(FormB, FormKeys[i]) : i \in 1..Len(FormKeys)}

NameChars == {"a", ".", "/"}
FileNames == SeqsUpTo(NameChars, MaxLen)
Contents == {<<"x">>, <<"y", "y">>}

FaultsOf(name, content) ==
    IF secure_filename(name) = <<>> THEN {NoFault}
    ELSE {NoFault, [kind |-> "open", at |-> 0]}
         \cup {[kind |-> "write", at |-> k] : k \in 0..(Len(content) - 1)}

NoUpload == [file |-> <<>>, fault |-> NoFault]

\* an upload and how its save ends: no file part, or a file part with a name
\* (possibly empty) and contents
Uploads ==
    {NoUpload}
    \cup UNION {{[file |-> <<[filename |-> n, content |-> c]>>, fault |-> f] :
                    f \in FaultsOf(n, c)} : <<n, c>> \in FileNames \X Contents}

PlainUploads ==
    {NoUpload, [file |-> <<[filename |-> <<"a">>, content |-> <<"x">>]>>, fault |-> NoFault]}

\* the requests enumerated: every form with a plain upload, and every upload
\* with a complete form
Inputs == (Forms \X PlainUploads) \cup (ValidForms \X Uploads)

Ids == 1..MaxId
Workers == 1..NumWorkers

-----------------------------------------------------------------------------
(* Requests served one at a time *)

NoReq ==
    [op |-> "none", id |-> 0, err |-> "none", status |-> 0, form |-> <<>>,
     upload |-> "none", filename |-> <<>>, fault |-> "none", dirty |-> FALSE,
     book |-> <<>>]

Init ==
    /\ table = <<>>
    /\ uploads = <<>>
    /\ req = NoReq
    /\ used = {}
    /\ gone = {}
    /\ subm = [i \in Ids |-> <<>>]
    /\ procs = [w \in Workers |-> <<>>]
    /\ base = [table |-> <<>>, calls |-> 0]

Response(op, r, form, up) ==
    [op |-> op, id |-> r.id, err |-> r.err, status |-> StatusOf(r.err),
     form |-> IF FormRead(form).err = "none" THEN <<NewBook(form, <<>>)>> ELSE <<>>,
     upload |-> UploadKind(up.file), filename |-> r.filename,
     fault |-> up.fault.kind, dirty |-> r.dirty, book |-> <<>>]

add_book(form, up) ==
    \E r \in {AddBookRun(table, uploads, form, up.file, up.fault)} :
        /\ NextId(table) <= MaxId
        /\ table' = r.table
        /\ uploads' = r.uploads
        /\ req' = Response("add", r, form, up)
        /\ used' = IF r.err = "none" THEN used \cup {r.id} ELSE used
        /\ subm' = IF r.err = "none"
                   THEN [subm EXCEPT ![r.id] = <<[form |-> form, cover_path |-> r.cover_path]>>]
                   ELSE subm
        /\ UNCHANGED <<gone, procs, base>>

edit_book(id, form, up) ==
    \E r \in {EditBookRun(table, uploads, id, form, up.file, up.fault)} :
        /\ table' = r.table
        /\ uploads' = r.uploads
        /\ req' = Response("edit", r, form, up)
        /\ subm' = IF r.err = "none" THEN [subm EXCEPT ![id] = <<>>] ELSE subm
        /\ UNCHANGED <<used, gone, procs, base>>

delete_book(id) ==
    \E r \in {DeleteBookRun(table, uploads, id)} :
        /\ table' = r.table
        /\ uploads' = r.uploads
        /\ req' = [NoReq EXCEPT !.op = "delete", !.id = id, !.err = r.err,
                                !.status = StatusOf(r.err)]
        /\ subm' = IF r.err = "none" THEN [subm EXCEPT ![id] = <<>>] ELSE subm
        /\ gone' = IF r.err = "none" THEN gone \cup {id} ELSE gone
        /\ UNCHANGED <<used, procs, base>>

\* book_detail: get_or_404, then the row is rendered
book_detail(id) ==
    /\ req' = [NoReq EXCEPT !.op = "detail", !.id = id,
                            !.err = IF Get(table, id) = <<>> THEN "NotFound" ELSE "none",
                            !.status = IF Get(table, id) = <<>> THEN 404 ELSE 200,
                            !.book = Get(table, id)]
    /\ UNCHANGED <<table, uploads, used, gone, subm, procs, base>>

Next ==
    \/ \E in \in Inputs : add_book(in[1], in[2])
    \/ \E id \in Ids, in \in Inputs : edit_book(id, in[1], in[2])
    \/ \E id \in Ids : delete_book(id)
    \/ \E id \in Ids : book_detail(id)

Spec == Init /\ [][Next]_vars

-----------------------------------------------------------------------------
(* Requests served concurrently, one per worker thread, each with its own  *)
(* session. A step is one access to the table or to the uploads directory; *)
(* what a handler does between two accesses is local and joins the step    *)
(* before it. A SELECT holds no lock once it has returned, and a commit is *)
(* one atomic write transaction.                                           *)

\* forms that differ from FormA in one column each
ConcForms == {FormA, [FormA EXCEPT !.title = "t2"], [FormA EXCEPT !.author = "a2"]}

ConcUploads ==
    {[file |-> <<[filename |-> n, content |-> c]>>, fault |-> NoFault] :
        n \in FileNames \ {<<>>}, c \in Contents}

ConcInputs == (ConcForms \X {NoUpload}) \cup ({FormA} \X ConcUploads)

Running(w) == procs[w] # <<>> /\ procs[w][1].pc # "done"
Done(w) == procs[w] # <<>> /\ procs[w][1].pc = "done"
At(w, pc) == procs[w] # <<>> /\ procs[w][1].pc = pc

Call(op, id, form, up) ==
    [op |-> op, id |-> id, form |-> form, up |-> up, pc |-> "done", err |-> "none",
     loaded |-> <<>>, obj |-> <<>>, filename |-> <<>>, pos |-> 0, alone |-> FALSE,
     last |-> FALSE, book |-> <<>>]

\* a call begins: the round's count of calls grows (it stops at NumWorkers + 1)
Begin(w, call) ==
    /\ procs[w] = <<>>
    /\ procs' = [procs EXCEPT ![w] = <<call>>]
    /\ base' = [base EXCEPT !.calls = IF @ > NumWorkers THEN @ ELSE @ + 1]

Set(w, call) == procs' = [procs EXCEPT ![w] = <<call>>]

AfterForm(up) == IF Named(up.file) THEN "open" ELSE "commit"

\* add_book up to the test of request.files
AddBegin(w, form, up) ==
    /\ NextId(table) + Cardinality({v \in Workers : Running(v) /\ procs[v][1].op = "add"})
          <= MaxId
    /\ Begin(w, [Call("add", 0, form, up) EXCEPT !.pc = AfterForm(up)])
    /\ UNCHANGED <<table, uploads, req, used, gone, subm>>

\* edit_book: get_or_404 and the four assignments
EditLoad(w, id, form, up) ==
    /\ LET rd == FormRead(form)
           c  == Call("edit", id, form, up)
       IN  IF Get(table, id) = <<>> THEN Begin(w, [c EXCEPT !.err = "NotFound"])
           ELSE IF rd.err # "none"
                THEN Begin(w, [c EXCEPT !.err = rd.err, !.loaded = Get(table, id)])
                ELSE Begin(w, [c EXCEPT !.pc = AfterForm(up), !.loaded = Get(table, id),
                                        !.obj = <<Assign(table[id], form, rd.assigned)>>])
    /\ UNCHANGED <<table, uploads, req, used, gone, subm>>

\* delete_book: get_or_404 and session.delete
DeleteLoad(w, id) ==
    /\ LET c == Call("delete", id, <<>>, NoUpload)
       IN  IF Get(table, id) = <<>> THEN Begin(w, [c EXCEPT !.err = "NotFound"])
           ELSE Begin(w, [c EXCEPT !.pc = "commit", !.loaded = Get(table, id)])
    /\ UNCHANGED <<table, uploads, req, used, gone, subm>>

\* book_detail
DetailGet(w, id) ==
    /\ LET c == Call("detail", id, <<>>, NoUpload)
       IN  IF Get(table, id) = <<>> THEN Begin(w, [c EXCEPT !.err = "NotFound"])
           ELSE Begin(w, [c EXCEPT !.book = Get(table, id)])
    /\ UNCHANGED <<table, uploads, req, used, gone, subm>>

\* Worker w has accessed file name. Observation: `last` marks the call that
\* accessed the file most recently, `alone` the call since whose open() no
\* other call has accessed it.
Disturb(w, name, call) ==
    [v \in Workers |->
        IF v = w THEN <<[call EXCEPT !.last = TRUE]>>
        ELSE IF procs[v] # <<>> /\ procs[v][1].filename = name
             THEN <<[procs[v][1] EXCEPT !.alone = FALSE, !.last = FALSE]>>
             ELSE procs[v]]

\* uploaded_file.save: secure_filename, os.path.join and open(save_path, "wb")
SaveOpen(w) ==
    /\ At(w, "open")
    /\ LET c        == procs[w][1]
           filename == secure_filename(c.up.file[1].filename)
       IN  IF filename = <<>> \/ c.up.fault.kind = "open"
           THEN /\ Set(w, [c EXCEPT !.pc = "done", !.err = "IOError"])
                /\ UNCHANGED uploads
           ELSE /\ uploads' = FsOpen(uploads, filename)
                /\ procs' = Disturb(w, filename,
                                    [c EXCEPT !.pc = "write", !.filename = filename,
                                              !.alone = TRUE])
    /\ UNCHANGED <<table, req, used, gone, subm, base>>

\* uploaded_file.save: one chunk copied; after the last one the file is
\* closed and the handler goes on (edit_book assigns cover_image)
SaveWrite(w) ==
    /\ At(w, "write")
    /\ LET c       == procs[w][1]
           content == c.up.file[1].content
           last    == c.pos + 1 = Len(content)
           ref     == UploadsRef(c.filename)
       IN  IF c.up.fault.kind = "write" /\ c.up.fault.at = c.pos
           THEN /\ Set(w, [c EXCEPT !.pc = "done", !.err = "IOError"])
                /\ UNCHANGED uploads
           ELSE /\ uploads' = FsWrite(uploads, c.filename, c.pos, content[c.pos + 1])
                /\ procs' = Disturb(w, c.filename,
                      [c EXCEPT !.pos = @ + 1,
                                !.pc = IF last THEN "commit" ELSE "write",
                                !.obj = IF last /\ c.op = "edit"
                                        THEN <<[c.obj[1] EXCEPT !.cover_image = ref]>>
                                        ELSE @])
    /\ UNCHANGED <<table, req, used, gone, subm, base>>

\* add_book: Book(...), session.add and commit
AddCommit(w) ==
    /\ At(w, "commit") /\ procs[w][1].op = "add"
    /\ LET c     == procs[w][1]
           rd    == FormRead(c.form)
           id    == NextId(table)
           cover == IF Named(c.up.file) THEN UploadsRef(c.filename) ELSE DefaultCover
       IN  IF rd.err # "none"
           THEN /\ Set(w, [c EXCEPT !.pc = "done", !.err = rd.err])
                /\ UNCHANGED table
           ELSE /\ table' = Insert(table, id, NewBook(c.form, cover))
                /\ Set(w, [c EXCEPT !.pc = "done", !.id = id,
                                    !.obj = <<NewBook(c.form, cover)>>])
    /\ UNCHANGED <<uploads, req, used, gone, subm, base>>

\* edit_book: commit
EditCommit(w) ==
    /\ At(w, "commit") /\ procs[w][1].op = "edit"
    /\ LET c  == procs[w][1]
           fl == Flush(table, c.id, c.loaded[1], c.obj[1])
       IN  /\ table' = fl.table
           /\ Set(w, [c EXCEPT !.pc = "done", !.err = fl.err, !.loaded = <<>>])
    /\ UNCHANGED <<uploads, req, used, gone, subm, base>>

\* delete_book: commit. A DELETE that matches no row is not an error.
DeleteCommit(w) ==
    /\ At(w, "commit") /\ procs[w][1].op = "delete"
    /\ table' = Remove(table, procs[w][1].id)
    /\ Set(w, [procs[w][1] EXCEPT !.pc = "done", !.loaded = <<>>])
    /\ UNCHANGED <<uploads, req, used, gone, subm, base>>

\* the response is sent and the worker is free; once every worker is free a
\* new round of calls begins from the table as it is
Finish(w) ==
    /\ Done(w)
    /\ procs' = [procs EXCEPT ![w] = <<>>]
    /\ base' = IF \A v \in Workers \ {w} : procs[v] = <<>>
               THEN [table |-> table, calls |-> 0] ELSE base
    /\ UNCHANGED <<table, uploads, req, used, gone, subm>>

\* calls without a file part: the table alone is shared
NextConc ==
    \/ \E w \in Workers : AddBegin(w, FormA, NoUpload)
    \/ \E w \in Workers, id \in Ids, form \in ConcForms : EditLoad(w, id, form, NoUpload)
    \/ \E w \in Workers, id \in Ids : DeleteLoad(w, id)
    \/ \E w \in Workers, id \in Ids : DetailGet(w, id)
    \/ \E w \in Workers : AddCommit(w)
    \/ \E w \in Workers : EditCommit(w)
    \/ \E w \in Workers : DeleteCommit(w)
    \/ \E w \in Workers : Finish(w)

SpecConc == Init /\ [][NextConc]_vars

\* calls that upload a file: the uploads directory is shared as well
NextUpload ==
    \/ \E w \in Workers, up \in ConcUploads : AddBegin(w, FormA, up)
    \/ \E w \in Workers, id \in Ids, up \in ConcUploads : EditLoad(w, id, FormA, up)
    \/ \E w \in Workers : SaveOpen(w)
    \/ \E w \in Workers : SaveWrite(w)
    \/ \E w \in Workers : AddCommit(w)
    \/ \E w \in Workers : EditCommit(w)
    \/ \E w \in Workers : Finish(w)

SpecUpload == Init /\ [][NextUpload]_vars

-----------------------------------------------------------------------------
(* Properties of the requests served one at a time (Spec) *)

Edited == req'.op = "edit"
Added == req'.op = "add"

SameFields(row, form) ==
    /\ row.title = form.title
    /\ row.author = form.author
    /\ row.year = form.year
    /\ row.description = form.description

\* C1 as stated: an edit_book POST of an existing id whose form is complete
\* and whose file system does not fail overwrites title, author, year and
\* description; it keeps cover_image when there is no file or the file name
\* is empty, and sets it to 'images/uploads/<sanitized name>' when the file
\* name is not empty.
C1_UpdateAsStated ==
    [][(Edited /\ req'.id \in DOMAIN table /\ req'.form # <<>> /\ req'.fault = "none")
        => /\ SameFields(table'[req'.id], req'.form[1])
           /\ req'.upload \in {"none", "empty"}
                => table'[req'.id].cover_image = table[req'.id].cover_image
           /\ req'.upload = "named"
                => table'[req'.id].cover_image = UploadsRef(req'.filename)]_vars

\* C1 amended: every edit_book POST that ends in its redirect has overwritten
\* title, author, year and description with the submitted values, has kept
\* cover_image when there is no file or the file name is empty, and has set
\* it to 'images/uploads/<sanitized name>', the sanitized name not empty,
\* when the file name is not empty. A file name that is not empty but
\* sanitizes to the empty name ends the request in an error with the row as
\* it was.
C1_UpdateAmended ==
    [][Edited =>
        /\ req'.status = 302
            => /\ req'.id \in DOMAIN table /\ req'.form # <<>>
               /\ SameFields(table'[req'.id], req'.form[1])
               /\ req'.upload \in {"none", "empty"}
                    => table'[req'.id].cover_image = table[req'.id].cover_image
               /\ req'.upload = "named"
                    => /\ req'.filename # <<>>
                       /\ table'[req'.id].cover_image = UploadsRef(req'.filename)
        /\ (req'.id \in DOMAIN table /\ req'.form # <<>> /\ req'.fault = "none")
            => IF req'.upload = "named" /\ req'.filename = <<>>
               THEN req'.status = 500 /\ table' = table
               ELSE req'.status = 302]_vars

C1_Witness ==
    /\ req.op = "edit" /\ req.status = 302 /\ req.upload = "named"
    /\ table[req.id].cover_image = UploadsRef(req.filename)
    /\ SameFields(table[req.id], req.form[1])
    /\ \E i \in DOMAIN table \ {req.id} : table[i].title # table[req.id].title

\* C2: a book that is created receives an id no earlier book ever had.
C2_IdNeverReused ==
    [][(Added /\ req'.status = 302) => req'.id \notin used]_vars

\* C3: once delete_book has removed an id, every later book_detail,
\* edit_book and delete_book of that id ends in 404.
C3_DeletedStays404 ==
    [][(req'.op \in {"detail", "edit", "delete"} /\ req'.id \in gone)
        => req'.status = 404]_vars

\* C4: every stored cover_image is not empty and is the default reference or
\* 'images/uploads/<name>' for a non-empty name of a file in the uploads
\* directory.
C4_CoverResolvable ==
    \A id \in DOMAIN table :
        /\ table[id].cover_image # <<>>
        /\ \/ table[id].cover_image = DefaultCover
           \/ \E name \in DOMAIN uploads :
                name # <<>> /\ table[id].cover_image = UploadsRef(name)

C4_Witness ==
    /\ req.op = "delete" /\ req.status = 302
    /\ \E id \in DOMAIN table : table[id].cover_image = UploadsRef(<<"a">>)

\* C5: an add_book POST without a file part, or with a file part of empty
\* name, writes no file, and with a complete form it stores the book with
\* cover_image 'images/default_cover.jpg'.
C5_DefaultCover ==
    [][(Added /\ req'.upload \in {"none", "empty"})
        => /\ uploads' = uploads
           /\ req'.form # <<>> => req'.status = 302
           /\ req'.status = 302
                => /\ DOMAIN table' = DOMAIN table \cup {req'.id}
                   /\ table'[req'.id].cover_image = DefaultCover]_vars

C5_Witness ==
    /\ req.op = "add" /\ req.upload = "empty" /\ req.status = 302
    /\ table[req.id].cover_image = DefaultCover
    /\ uploads # <<>>

\* the integer each accepted year text of the forms denotes
YearOf(text) == IF text = <<"-", "1">> THEN 0 - 1 ELSE 2

\* C6: a book_detail of an id whose create was followed by no update and no
\* delete of that id returns the submitted title, author, year (as the
\* integer the text denotes) and description, and the resolved cover
\* reference.
C6_CreateReadRoundTrip ==
    (req.op = "detail" /\ subm[req.id] # <<>>)
        => /\ req.status = 200
           /\ req.book = <<[title       |-> subm[req.id][1].form.title,
                            author      |-> subm[req.id][1].form.author,
                            year        |-> YearOf(subm[req.id][1].form.year),
                            description |-> subm[req.id][1].form.description,
                            cover_image |-> subm[req.id][1].cover_path]>>

C6_Witness ==
    /\ req.op = "detail" /\ subm[req.id] # <<>> /\ req.status = 200
    /\ req.id \in gone
    /\ req.book[1].cover_image # DefaultCover

\* C7: an add_book or edit_book POST that fails on a missing form field or
\* on a year that is no integer leaves the book table as it was.
C7_ValidationFailureChangesNothing ==
    [][((Added \/ Edited) /\ req'.err \in {"KeyError", "ValueError"})
        => table' = table]_vars

C7_Witness ==
    /\ req.op = "edit" /\ req.err = "ValueError" /\ req.dirty
    /\ req.id \in DOMAIN table

\* C8: an add_book or edit_book POST whose file write fails leaves the book
\* table as it was, and one that ends in its redirect after an upload has
\* the complete file in the uploads directory.
C8_WriteFailureCommitsNothing ==
    [][(Added \/ Edited) =>
        /\ (req'.err = "IOError" \/ req'.fault # "none") => table' = table
        /\ (req'.status = 302 /\ req'.upload = "named")
            => /\ req'.filename \in DOMAIN uploads'
               /\ uploads'[req'.filename] \in Contents]_vars

C8_Witness ==
    /\ req.op = "edit" /\ req.err = "IOError" /\ req.fault = "write" /\ req.dirty
    /\ req.filename \in DOMAIN uploads

-----------------------------------------------------------------------------
(* Properties of the requests served concurrently *)

Calls == {w \in Workers : procs[w] # <<>>}

\* every call begun since all workers were last free has ended and is still
\* on record
RoundOver == Calls # {} /\ Cardinality(Calls) = base.calls /\ \A w \in Calls : Done(w)

Perms(S) ==
    {o \in [1..Cardinality(S) -> S] : \A i, j \in 1..Cardinality(S) : o[i] = o[j] => i = j}

\* call c served alone on table t
SeqCall(t, c) ==
    CASE c.op = "edit" ->
            LET r == EditBookRun(t, uploads, c.id, c.form, c.up.file, c.up.fault)
            IN  [err |-> r.err, table |-> r.table, book |-> <<>>]
      [] c.op = "delete" ->
            LET r == DeleteBookRun(t, uploads, c.id)
            IN  [err |-> r.err, table |-> r.table, book |-> <<>>]
      [] OTHER ->
            [err |-> IF Get(t, c.id) = <<>> THEN "NotFound" ELSE "none",
             table |-> t, book |-> Get(t, c.id)]

\* the calls of `order` served one after the other from table t give each
\* call the outcome it had (success or failure, and the row a read returned)
RECURSIVE Replay(_, _)
Replay(t, order) ==
    IF order = <<>> THEN [ok |-> TRUE, table |-> t]
    ELSE LET c == procs[Head(order)][1]
             r == SeqCall(t, c)
         IN  IF (r.err = "none") = (c.err = "none") /\ r.book = c.book
             THEN Replay(r.table, Tail(order))
             ELSE [ok |-> FALSE, table |-> t]

\* C9: edit_book, delete_book and book_detail calls on one id that run
\* concurrently end with the outcomes and the table of some order of the
\* same calls served one at a time.
C9_Linearizable ==
    (/\ RoundOver
     /\ \A w \in Calls : procs[w][1].op \in {"edit", "delete", "detail"}
     /\ \A v, w \in Calls : procs[v][1].id = procs[w][1].id)
        => \E order \in Perms(Calls) :
                Replay(base.table, order) = [ok |-> TRUE, table |-> table]

Saved(w) == procs[w] # <<>> /\ procs[w][1].filename # <<>> /\ procs[w][1].pc \in {"commit", "done"}

\* C10 as stated: once no save is running, a file that calls of the round
\* have saved holds the contents uploaded by the call that wrote to it last.
C10_LastWriteWins ==
    (Cardinality(Calls) = base.calls /\ \A w \in Calls : ~At(w, "write"))
        => \A w \in Calls :
                (Saved(w) /\ procs[w][1].last)
                    => uploads[procs[w][1].filename] = procs[w][1].up.file[1].content

\* C10 amended: the file a save writes is named by the sanitized file name
\* alone, so two calls for different books that upload under the same
\* sanitized name store the same cover_image reference and share one file;
\* the file holds the contents uploaded by a call while no other save has
\* accessed the file since that call opened it. Saves of the same name that
\* overlap can leave a mixture of both uploads.
C10_SharedFileAmended ==
    /\ \A w \in Calls :
        LET c == procs[w][1]
        IN  /\ c.filename # <<>>
                => /\ c.filename = secure_filename(c.up.file[1].filename)
                   /\ c.filename \in DOMAIN uploads
                   /\ c.alone => uploads[c.filename] = SubSeq(c.up.file[1].content, 1, c.pos)
            /\ (Done(w) /\ c.err = "none" /\ c.op \in {"add", "edit"} /\ Named(c.up.file))
                => c.obj[1].cover_image = UploadsRef(c.filename)
    /\ \A v, w \in Calls :
        (Saved(v) /\ Saved(w) /\ procs[v][1].filename = procs[w][1].filename
            /\ Done(v) /\ Done(w) /\ procs[v][1].err = "none" /\ procs[w][1].err = "none")
            => procs[v][1].obj[1].cover_image = procs[w][1].obj[1].cover_image

C10_Witness ==
    \E v, w \in Calls :
        /\ Done(v) /\ Done(w) /\ procs[v][1].err = "none" /\ procs[w][1].err = "none"
        /\ procs[v][1].id # procs[w][1].id
        /\ procs[v][1].filename # <<>> /\ procs[v][1].filename = procs[w][1].filename
        /\ procs[v][1].up.file[1].content # procs[w][1].up.file[1].content
        /\ table[procs[v][1].id].cover_image = table[procs[w][1].id].cover_image
        /\ procs[w][1].alone
        /\ uploads[procs[w][1].filename] = procs[w][1].up.file[1].content

====
